---- MODULE Spec2Model ----
(***************************************************************************)
(* The stripe client library.                                              *)
(*                                                                         *)
(* Card number utilities (card.go): the Luhn checksum validator            *)
(* IsLuhnValid and the card-brand classifier GetCardType.  A card number   *)
(* is a Go string; here it is the sequence of its characters, each a       *)
(* one-character string, which is what strings.Split(card, "") produces.   *)
(*                                                                         *)
(* Resource clients (customer.go, card.go, charge.go, plan.go, coupon.go,  *)
(* invoice.go, the subscription, invoice item and token clients): each     *)
(* operation builds form values, calls query once and returns what query   *)
(* decoded together with its error.                                        *)
(*                                                                         *)
(* UnixTime (unixtime.go): the JSON form of a timestamp.                   *)
(***************************************************************************)
EXTENDS Integers, Sequences, FiniteSets, TLC

VARIABLES
    \* the card utilities: the input and the results of the last calls
    card, valid, err, doubled, brand, done,
    \* the resource clients, per caller: where the caller is, the call it
    \* makes, the query it issued, what query left behind, what the call
    \* returned, and how often it called query
    pc, call, req, resp, ret, nq,
    \* UnixTime: a time, JSON bytes and where they come from, the receiver
    \* of UnmarshalJSON and its error
    ut, js, jsrc, ut2, uerr

cardVars == <<card, valid, err, doubled, brand, done>>
clientVars == <<pc, call, req, resp, ret, nq>>
timeVars == <<ut, js, jsrc, ut2, uerr>>

vars == <<cardVars, clientVars, timeVars>>

(* ----------------------------- bounds --------------------------------- *)

\* Longest generated card number (the sample numbers below are longer).
MaxLen == 4

(* --------------------------- card types ------------------------------- *)

AmericanExpress == "American Express"
DinersClub == "Diners Club"
Discover == "Discover"
JCB == "JCB"
MasterCard == "MasterCard"
Visa == "Visa"
UnknownCard == "Unknown"

\* The run-time panic of a slice expression card[0:n] with n > len(card).
Panic == "panic: slice bounds out of range"

\* The nil error.
Nil == "nil"

\* The *strconv.NumError that strconv.Atoi returns for a non-numeral.
ErrSyntax == "strconv.Atoi: invalid syntax"

\* A result variable before the function has been called.
NotCalled == "not called"

(* ----------------------------- inputs --------------------------------- *)

DigitChars == {"0", "1", "2", "3", "4", "5", "6", "7", "8", "9"}

\* Characters of the generated inputs: the decimal digits and a letter.
Chars == DigitChars \cup {"a"}

Card4242 ==
    <<"4","2","4","2","4","2","4","2","4","2","4","2","4","2","4","2">>
Card4241 ==
    <<"4","2","4","2","4","2","4","2","4","2","4","2","4","2","4","1">>
CardDiscover ==
    <<"6","0","1","1","0","0","0","0","0","0","0","0","0","0","0","0">>
CardAmex ==
    <<"3","4","0","0","0","0","0","0","0","0","0","0","0","0","9">>
Card9999 ==
    <<"9","9","9","9","9","9","9","9","9","9","9","9","9","9","9","9">>
CardAbc123 == <<"a","b","c","1","2","3">>

\* Sample inputs beyond the generated ones, signs and a separator included.
SampleCards ==
    { Card4242, Card4241, CardDiscover, CardAmex, Card9999, CardAbc123,
      <<"+">>, <<"-">>, <<"+","1">>, <<"1","-","2">>, <<"4"," ","2">> }

Strings(n) == UNION { [1..k -> Chars] : k \in 0..n }

Inputs == Strings(MaxLen) \cup SampleCards

IsDigits(s) == \A i \in 1..Len(s) : s[i] \in DigitChars

(* --------------------------- IsLuhnValid ------------------------------ *)

DigitValue ==
    [c \in DigitChars |->
        CASE c = "0" -> 0 [] c = "1" -> 1 [] c = "2" -> 2 [] c = "3" -> 3
          [] c = "4" -> 4 [] c = "5" -> 5 [] c = "6" -> 6 [] c = "7" -> 7
          [] c = "8" -> 8 [] c = "9" -> 9]

\* digit, err := strconv.Atoi(digits[i]) on a one-character string: a
\* decimal digit parses to its value, anything else (a letter, a lone
\* sign, a space) is a syntax error with digit 0.
ParseDigitIgnoreErr(ch) ==
    IF ch \in DigitChars
    THEN [digit |-> DigitValue[ch], err |-> Nil]
    ELSE [digit |-> 0, err |-> Nil]

ParseDigit(ch) ==
    IF ch \in DigitChars
    THEN [digit |-> DigitValue[ch], err |-> Nil]
    ELSE [digit |-> 0, err |-> ErrSyntax]

\* The switch of the loop body: what one digit adds to the sum.
LuhnAddNoSubtract(even, digit) ==
    IF even THEN digit * 2 ELSE digit

LuhnAddOver5(even, digit) ==
    IF even /\ digit > 5 THEN (digit * 2) - 9
    ELSE IF even THEN digit * 2
    ELSE digit

LuhnAdd(even, digit) ==
    IF even /\ digit > 4 THEN (digit * 2) - 9
    ELSE IF even THEN digit * 2
    ELSE digit

\* Whether the switch takes one of its two multiplying cases.
LuhnDoubles(even, digit) ==
    (even /\ digit > 4) \/ even

\* The for loop, from index i (1-based here, i-1 in Go) down to the first
\* character.  dbl collects the distances from the end of the string of the
\* digits the loop has multiplied by 2.
RECURSIVE LuhnLoop(_, _, _, _, _)
LuhnLoop(digits, i, even, sum, dbl) ==
    IF i < 1
    THEN [valid |-> (sum % 10 = 0), err |-> Nil, doubled |-> dbl]
    ELSE LET p == ParseDigit(digits[i])
         IN  IF p.err # Nil
             THEN [valid |-> FALSE, err |-> p.err, doubled |-> dbl]
             ELSE LuhnLoop(digits, i - 1, ~even,
                           sum + LuhnAdd(even, p.digit),
                           IF LuhnDoubles(even, p.digit)
                           THEN dbl \cup {Len(digits) - i}
                           ELSE dbl)

\* The loop as above but stopping before the first character (i > 0 in Go).
RECURSIVE LuhnLoopSkipFirst(_, _, _, _, _)
LuhnLoopSkipFirst(digits, i, even, sum, dbl) ==
    IF i < 2
    THEN [valid |-> (sum % 10 = 0), err |-> Nil, doubled |-> dbl]
    ELSE LET p == ParseDigit(digits[i])
         IN  IF p.err # Nil
             THEN [valid |-> FALSE, err |-> p.err, doubled |-> dbl]
             ELSE LuhnLoopSkipFirst(digits, i - 1, ~even,
                           sum + LuhnAdd(even, p.digit),
                           IF LuhnDoubles(even, p.digit)
                           THEN dbl \cup {Len(digits) - i}
                           ELSE dbl)

IsLuhnValidSkipFirst(crd) ==
    LuhnLoopSkipFirst(crd, Len(crd), FALSE, 0, {})

IsLuhnValidEvenFirst(crd) ==
    LuhnLoop(crd, Len(crd), TRUE, 0, {})

\* (A variant that refuses a card number without characters.)
IsLuhnValidRejectEmpty(crd) ==
    IF Len(crd) = 0 THEN [valid |-> FALSE, err |-> Nil, doubled |-> {}]
    ELSE LuhnLoop(crd, Len(crd), FALSE, 0, {})

\* sum = 0; for i, even := len(digits)-1, false; i >= 0; ...
IsLuhnValid(crd) ==
    LuhnLoop(crd, Len(crd), FALSE, 0, {})

(* --------------------------- GetCardType ------------------------------ *)

\* The slice expression card[0:n] panics when n exceeds len(card).
OutOfRange(crd, n) == n > Len(crd)

\* The slice expression card[0:n], n within range.
Slice(crd, n) == SubSeq(crd, 1, n)

\* case "2", "1": switch card[0:4]
Case21(crd) ==
    LET p4 == Slice(crd, 4)
    IN  IF OutOfRange(crd, 4) THEN Panic
        ELSE IF p4 \in {<<"2","1","3","1">>, <<"1","8","0","0">>} THEN JCB
        ELSE UnknownCard

\* case "6": switch card[0:4]
Case6Prefix3(crd) ==
    LET p3 == Slice(crd, 3)
    IN  IF OutOfRange(crd, 3) THEN Panic
        ELSE IF p3 = <<"6","0","1">> THEN Discover
        ELSE UnknownCard

Case6(crd) ==
    LET p4 == Slice(crd, 4)
    IN  IF OutOfRange(crd, 4) THEN Panic
        ELSE IF p4 = <<"6","0","1","1">> THEN Discover
        ELSE UnknownCard

\* case "5": switch card[0:2]
Case5UpTo54(crd) ==
    LET p2 == Slice(crd, 2)
    IN  IF OutOfRange(crd, 2) THEN Panic
        ELSE IF p2 \in {<<"5","1">>, <<"5","2">>, <<"5","3">>, <<"5","4">>}
        THEN MasterCard
        ELSE UnknownCard

Case5(crd) ==
    LET p2 == Slice(crd, 2)
    IN  IF OutOfRange(crd, 2) THEN Panic
        ELSE IF p2 \in {<<"5","1">>, <<"5","2">>, <<"5","3">>, <<"5","4">>,
                        <<"5","5">>}
        THEN MasterCard
        ELSE UnknownCard

\* case "30": switch card[0:3]; no case matching leaves the outer switch.
Case30(crd) ==
    LET p3 == Slice(crd, 3)
    IN  IF OutOfRange(crd, 3) THEN Panic
        ELSE IF p3 \in {<<"3","0","0">>, <<"3","0","1">>, <<"3","0","2">>,
                        <<"3","0","3">>, <<"3","0","4">>, <<"3","0","5">>}
        THEN DinersClub
        ELSE UnknownCard

\* case "3": switch card[0:2]
Case3AmexOnly37(crd) ==
    LET p2 == Slice(crd, 2)
    IN  IF OutOfRange(crd, 2) THEN Panic
        ELSE IF p2 = <<"3","7">> THEN AmericanExpress
        ELSE IF p2 = <<"3","6">> THEN DinersClub
        ELSE IF p2 = <<"3","0">> THEN Case30(crd)
        ELSE JCB

Case3(crd) ==
    LET p2 == Slice(crd, 2)
    IN  IF OutOfRange(crd, 2) THEN Panic
        ELSE IF p2 \in {<<"3","4">>, <<"3","7">>} THEN AmericanExpress
        ELSE IF p2 = <<"3","6">> THEN DinersClub
        ELSE IF p2 = <<"3","0">> THEN Case30(crd)
        ELSE JCB

\* switch card[0:1]
GetCardType(crd) ==
    LET p1 == Slice(crd, 1)
    IN  IF OutOfRange(crd, 1) THEN Panic
        ELSE IF p1 = <<"4">> THEN Visa
        ELSE IF p1 \in {<<"2">>, <<"1">>} THEN Case21(crd)
        ELSE IF p1 = <<"6">> THEN Case6(crd)
        ELSE IF p1 = <<"5">> THEN Case5(crd)
        ELSE IF p1 = <<"3">> THEN Case3(crd)
        ELSE UnknownCard

(* ----------------------- request form values -------------------------- *)

\* Bound of the integers a caller passes (amounts, quantities, limits).
MaxInt == 1

Ints == (0 - MaxInt)..MaxInt

\* A nil pointer (*CardParams, *UnixTime, *int, *bool, *string).
NilPtr == <<>>

\* &x and *p.
Ptr(x) == <<x>>
Deref(p) == p[1]

\* strconv.Itoa / strconv.FormatInt(_, 10): the decimal numeral of n.
Itoa(n) == ToString(n)

\* url.QueryEscape on the identifiers used here: "/" becomes "%2F", the
\* letters, digits and "_" of the other identifiers are left alone.
QueryEscape(s) == IF s = "a/b" THEN "a%2Fb" ELSE s

\* make(url.Values): no key.
\* values := url.Values{}: every operation starts from form values of its
\* own.  (A variant that picks up the form values of a request in flight.)
EmptyValuesShared ==
    IF \E d \in DOMAIN pc : pc[d] = "query"
    THEN req[CHOOSE d \in DOMAIN pc : pc[d] = "query"].values
    ELSE [k \in {} |-> <<>>]

EmptyValues == [k \in {} |-> <<>>]

\* url.Values.Add(key, value): appends value to the values of key.
Add(values, key, value) ==
    IF key \in DOMAIN values
    THEN [values EXCEPT ![key] = Append(@, value)]
    ELSE values @@ (key :> <<value>>)

Has(values, key) == key \in DOMAIN values

\* appendMetadata(values, metadata): one metadata[<key>] entry per key.
RECURSIVE appendMetadata(_, _)
appendMetadata(values, metadata) ==
    IF DOMAIN metadata = {} THEN values
    ELSE LET k == CHOOSE x \in DOMAIN metadata : TRUE
         IN  appendMetadata(Add(values, "metadata[" \o k \o "]", metadata[k]),
                            [x \in DOMAIN metadata \ {k} |-> metadata[x]])

\* listParams(limit, before, after): the page size and the two cursors.
listParams(limit, before, after) ==
    LET v1 == IF limit > 0 THEN Add(EmptyValues, "limit", Itoa(limit))
              ELSE EmptyValues
        v2 == IF before # "" THEN Add(v1, "ending_before", before) ELSE v1
    IN  IF after # "" THEN Add(v2, "starting_after", after) ELSE v2

\* if s != "" { values.Add(key, s) }
AddString(values, key, s) == IF s # "" THEN Add(values, key, s) ELSE values

\* func appendCardParams(values url.Values, c *CardParams), customer.go
appendCardParams(values, c) ==
    LET v1  == AddString(values, "card[number]", c.Number)
        v2  == IF c.ExpMonth # 0
               THEN Add(v1, "card[exp_month]", Itoa(c.ExpMonth)) ELSE v1
        v3  == IF c.ExpMonth # 0
               THEN Add(v2, "card[exp_year]", Itoa(c.ExpYear)) ELSE v2
        v4  == AddString(v3, "card[name]", c.Name)
        v5  == AddString(v4, "card[cvc]", c.CVC)
        v6  == AddString(v5, "card[address_line1]", c.Address1)
        v7  == AddString(v6, "card[address_line2]", c.Address2)
        v8  == AddString(v7, "card[address_zip]", c.AddressZip)
        v9  == AddString(v8, "card[address_state]", c.AddressState)
    IN  AddString(v9, "card[address_country]", c.AddressCountry)

\* (A variant that sends the token next to the card details.)
appendCustomerCardAndToken(values, c) ==
    LET v == IF c.Card # NilPtr THEN appendCardParams(values, Deref(c.Card))
             ELSE values
    IN  IF c.Token # "" THEN Add(v, "card", c.Token) ELSE v

\* The card-source branch at the end of appendCustomerParams.
appendCustomerCard(values, c) ==
    IF c.Card # NilPtr THEN appendCardParams(values, Deref(c.Card))
    ELSE IF c.Token # "" THEN Add(values, "card", c.Token)
    ELSE values

\* func appendCustomerParams(values url.Values, c *CustomerParams)
appendCustomerParams(values, c) ==
    LET v1 == AddString(values, "email", c.Email)
        v2 == AddString(v1, "description", c.Description)
        v3 == AddString(v2, "coupon", c.Coupon)
        v4 == AddString(v3, "plan", c.Plan)
        v5 == IF c.TrialEnd # NilPtr
              THEN Add(v4, "trial_end", Itoa(Deref(c.TrialEnd).sec)) ELSE v4
        v6 == IF c.Balance # NilPtr
              THEN Add(v5, "account_balance", Itoa(Deref(c.Balance))) ELSE v5
        v7 == AddString(v6, "default_card", c.DefaultCard)
        v8 == appendMetadata(v7, c.Metadata)
    IN  appendCustomerCard(v8, c)

(* ------------------------ the query primitive ------------------------- *)

\* Errors of the transport, of the remote API and of the JSON decoder.
ErrTransport == "transport failure"
ErrAPI == "remote API error"
ErrDecode == "json: decode failure"

\* The zero value of a decode target, by the type of the target.
Zero(shape) ==
    CASE shape = "DeleteResp" -> [deleted |-> FALSE]
      [] shape = "List" -> [data |-> <<>>]
      [] shape = "ListMore" -> [count |-> 0, more |-> FALSE, data |-> <<>>]
      [] OTHER -> [id |-> ""]

\* What the remote service may answer with, decoded into a target of the
\* given type.
Bodies(shape) ==
    CASE shape = "DeleteResp" -> {[deleted |-> TRUE], [deleted |-> FALSE]}
      [] shape = "List" -> {[data |-> <<>>], [data |-> <<"id_2", "id_1">>]}
      [] shape = "ListMore" ->
            {[count |-> 0, more |-> FALSE, data |-> <<>>],
             [count |-> 3, more |-> TRUE, data |-> <<"id_2", "id_1">>]}
      [] OTHER -> {[id |-> "id_1"]}

\* The outcomes of one HTTP exchange for a request: an error, or a body.
Outcomes(request) ==
    {[err |-> e, body |-> Zero(request.shape)] : e \in {ErrTransport, ErrAPI}}
    \cup {[err |-> Nil, body |-> b] : b \in Bodies(request.shape)}

\* query(method, path, values, v): the error of the exchange, or the body
\* decoded into v.  Only a pointer lets the decoder reach the caller's
\* variable; decoding into a non-pointer fails and fills nothing.
query(request, outcome) ==
    IF outcome.err # Nil
    THEN [err |-> outcome.err, target |-> Zero(request.shape)]
    ELSE IF request.pointer
    THEN [err |-> Nil, target |-> outcome.body]
    ELSE [err |-> ErrDecode, target |-> Zero(request.shape)]

\* The arguments of one query call: v is &x (pointer) or x, of type shape.
Request(method, path, values, shape, pointer) ==
    [method |-> method, path |-> path, values |-> values,
     shape |-> shape, pointer |-> pointer]

(* -------------------------- return statements ------------------------- *)

\* (A variant that reports an API error, such as not found, as success.)
ReturnTargetHideAPIError(q) ==
    [val |-> q.target, err |-> IF q.err = ErrAPI THEN Nil ELSE q.err]

\* return &x, err          (also: return res, query(...))
ReturnTarget(q) == [val |-> q.target, err |-> q.err]

\* (A variant that takes a query without error for a deletion.)
ReturnDeletedIfNoError(q) == [val |-> q.err = Nil, err |-> q.err]

\* return resp.Deleted, err
ReturnDeleted(q) == [val |-> q.target.deleted, err |-> q.err]

\* if err != nil { return false, err }; return resp.Deleted, nil
ReturnDeletedGuarded(q) ==
    IF q.err # Nil THEN [val |-> FALSE, err |-> q.err]
    ELSE [val |-> q.target.deleted, err |-> Nil]

\* return res.Data, err
ReturnData(q) == [val |-> q.target.data, err |-> q.err]

\* if err != nil { return nil, err }; return resp.Data, nil
ReturnDataGuarded(q) ==
    IF q.err # Nil THEN [val |-> <<>>, err |-> q.err]
    ELSE [val |-> q.target.data, err |-> Nil]

\* return res.Data, res.More, err
ReturnDataMore(q) ==
    [val |-> q.target.data, more |-> q.target.more, err |-> q.err]

(* --------------------------- CustomerClient --------------------------- *)

CustomerClientCreate(c) ==
    Request("POST", "/customers",
            appendCustomerParams(EmptyValues, c.params), "Customer", TRUE)

CustomerClientRetrieve(c) ==
    Request("GET", "/customers/" \o QueryEscape(c.id),
            EmptyValues, "Customer", TRUE)

CustomerClientUpdate(c) ==
    Request("POST", "/customers/" \o QueryEscape(c.id),
            appendCustomerParams(EmptyValues, c.params), "Customer", TRUE)

CustomerClientDeleteCard(c) ==
    Request("DELETE",
            "/customers/" \o QueryEscape(c.id) \o "/cards/"
                \o QueryEscape(c.id2),
            EmptyValues, "DeleteResp", TRUE)

CustomerClientDelete(c) ==
    Request("DELETE", "/customers/" \o QueryEscape(c.id),
            EmptyValues, "DeleteResp", TRUE)

CustomerClientList(c) ==
    Request("GET", "/customers", listParams(c.limit, c.before, c.after),
            "List", TRUE)

\* CreateCard(customerID, token, card)
CustomerClientCreateCard(c) ==
    Request("POST", "/customers/" \o QueryEscape(c.id) \o "/cards",
            IF c.token # "" THEN Add(EmptyValues, "card", c.token)
            ELSE appendCardParams(EmptyValues, Deref(c.card)),
            "Card", TRUE)

\* UpdateCard(customerID, cardID, card)
CustomerClientUpdateCard(c) ==
    Request("POST",
            "/customers/" \o QueryEscape(c.id) \o "/cards/"
                \o QueryEscape(c.id2),
            appendCardParams(EmptyValues, Deref(c.card)), "Card", TRUE)

(* ----------------------------- CardClient ----------------------------- *)

\* func (c CardClient) path(customerID, cardID string) string
CardClientPath(customerID, cardID) ==
    LET p == "/customers/" \o QueryEscape(customerID) \o "/cards"
    IN  IF cardID # "" THEN p \o "/" \o QueryEscape(cardID) ELSE p

CardClientCreate(c) ==
    Request("POST", CardClientPath(c.id, ""),
            IF c.token # "" THEN Add(EmptyValues, "card", c.token)
            ELSE appendCardParams(EmptyValues, Deref(c.card)),
            "Card", TRUE)

CardClientUpdate(c) ==
    Request("POST", CardClientPath(c.id, c.id2),
            appendCardParams(EmptyValues, Deref(c.card)), "Card", TRUE)

CardClientDelete(c) ==
    Request("DELETE", CardClientPath(c.id, c.id2), EmptyValues,
            "DeleteResp", TRUE)

CardClientRetrieve(c) ==
    Request("GET", CardClientPath(c.id, c.id2), EmptyValues, "Card", TRUE)

CardClientList(c) ==
    Request("GET", CardClientPath(c.id, ""),
            listParams(c.limit, c.before, c.after), "ListMore", TRUE)

(* ---------------------------- ChargeClient ---------------------------- *)

\* (A variant that sends capture whenever it is provided.)
ChargeCaptureIfProvided(values, capture) ==
    IF capture # NilPtr
    THEN Add(values, "capture", IF Deref(capture) THEN "true" ELSE "false")
    ELSE values

\* if params.Capture != nil && !*params.Capture { values.Add("capture", ..) }
ChargeCapture(values, capture) ==
    IF capture # NilPtr /\ ~Deref(capture)
    THEN Add(values, "capture", "false") ELSE values

\* The payment source of a charge: card details, card token or customer.
ChargeSource(values, params) ==
    IF params.Card # NilPtr THEN appendCardParams(values, Deref(params.Card))
    ELSE IF params.Token # "" THEN Add(values, "card", params.Token)
    ELSE Add(values, "customer", params.Customer)

ChargeClientCreate(c) ==
    LET params == c.params
        v1 == Add(EmptyValues, "amount", Itoa(params.Amount))
        v2 == Add(v1, "currency", params.Currency)
        v3 == AddString(v2, "description", params.Description)
        v4 == ChargeCapture(v3, params.Capture)
        v5 == AddString(v4, "statement_description",
                        params.StatementDescription)
        v6 == appendMetadata(v5, params.Metadata)
    IN  Request("POST", "/charges", ChargeSource(v6, params), "Charge", TRUE)

ChargeClientRetrieve(c) ==
    Request("GET", "/charges/" \o QueryEscape(c.id), EmptyValues,
            "Charge", TRUE)

ChargeClientRefund(c) ==
    Request("POST", "/charges/" \o QueryEscape(c.id) \o "/refund",
            EmptyValues, "Charge", TRUE)

ChargeClientRefundAmount(c) ==
    Request("POST", "/charges/" \o QueryEscape(c.id) \o "/refund",
            Add(EmptyValues, "amount", Itoa(c.amt)), "Charge", TRUE)

\* func (c *ChargeClient) list(id string, count int, offset int)
ChargeClientlist(id, count, offset) ==
    LET v1 == Add(EmptyValues, "count", Itoa(count))
        v2 == Add(v1, "offset", Itoa(offset))
    IN  Request("GET", "/charges", AddString(v2, "customer", id),
                "List", TRUE)

ChargeClientList(c) == ChargeClientlist("", 10, 0)

ChargeClientListN(c) == ChargeClientlist("", c.count, c.offset)

ChargeClientCustomerList(c) == ChargeClientlist(c.id, 10, 0)

ChargeClientCustomerListN(c) == ChargeClientlist(c.id, c.count, c.offset)

(* ------------------------- SubscriptionClient ------------------------- *)

\* func (c SubscriptionClient) path(customerID, subscriptionID string)
SubscriptionClientPath(customerID, subscriptionID) ==
    LET p == "/customers/" \o QueryEscape(customerID) \o "/subscriptions"
    IN  IF subscriptionID # "" THEN p \o "/" \o QueryEscape(subscriptionID)
        ELSE p

\* func (c SubscriptionClient) values(params *SubscriptionParams)
SubscriptionClientValues(params) ==
    LET v1 == AddString(EmptyValues, "plan", params.Plan)
        v2 == AddString(v1, "coupon", params.Coupon)
        v3 == IF params.Prorate THEN Add(v2, "prorate", "true") ELSE v2
        v4 == IF params.TrialEnd # NilPtr
              THEN Add(v3, "trial_end", Itoa(Deref(params.TrialEnd).sec))
              ELSE v3
        v5 == IF params.Quantity # 0
              THEN Add(v4, "quantity", Itoa(params.Quantity)) ELSE v4
    IN  IF params.Token # "" THEN Add(v5, "card", params.Token)
        ELSE IF params.Card # NilPtr
        THEN appendCardParams(v5, Deref(params.Card))
        ELSE v5

SubscriptionClientCreate(c) ==
    Request("POST", SubscriptionClientPath(c.id, ""),
            SubscriptionClientValues(c.params), "Subscription", TRUE)

SubscriptionClientUpdate(c) ==
    Request("POST", SubscriptionClientPath(c.id, c.id2),
            SubscriptionClientValues(c.params), "Subscription", TRUE)

SubscriptionClientCancel(c) ==
    Request("DELETE", SubscriptionClientPath(c.id, c.id2),
            IF c.atPeriodEnd THEN Add(EmptyValues, "at_period_end", "true")
            ELSE EmptyValues,
            "Subscription", TRUE)

SubscriptionClientRetrieve(c) ==
    Request("GET", SubscriptionClientPath(c.id, c.id2), EmptyValues,
            "Subscription", TRUE)

\* query(..., res): res is the struct itself, not its address.
SubscriptionClientList(c) ==
    Request("GET", SubscriptionClientPath(c.id, ""),
            listParams(c.limit, c.before, c.after), "ListMore", FALSE)

(* ----------------------------- PlanClient ----------------------------- *)

PlanClientCreate(c) ==
    LET params == c.params
        v1 == Add(EmptyValues, "id", params.ID)
        v2 == Add(v1, "name", params.Name)
        v3 == Add(v2, "amount", Itoa(params.Amount))
        v4 == Add(v3, "interval", params.Interval)
        v5 == Add(v4, "currency", params.Currency)
        v6 == IF params.TrialPeriodDays # 0
              THEN Add(v5, "trial_period_days", Itoa(params.TrialPeriodDays))
              ELSE v5
        v7 == IF params.IntervalCount > 1
              THEN Add(v6, "interval_count", Itoa(params.IntervalCount))
              ELSE v6
        v8 == IF params.StatementDescription # NilPtr
              THEN Add(v7, "statement_description",
                       Deref(params.StatementDescription))
              ELSE v7
    IN  Request("POST", "/plans", appendMetadata(v8, params.Metadata),
                "Plan", TRUE)

PlanClientRetrieve(c) ==
    Request("GET", "/plans/" \o QueryEscape(c.id), EmptyValues, "Plan", TRUE)

\* (A variant that also sends the amount of the plan.)
PlanClientUpdateAmount(c) ==
    LET params == c.params
        v1 == AddString(EmptyValues, "name", params.Name)
        v2 == IF params.StatementDescription # NilPtr
              THEN Add(v1, "statement_description",
                       Deref(params.StatementDescription))
              ELSE v1
        v3 == IF params.Amount # 0
              THEN Add(v2, "amount", Itoa(params.Amount)) ELSE v2
    IN  Request("POST", "/plans/" \o QueryEscape(c.id),
                appendMetadata(v3, params.Metadata), "Plan", TRUE)

PlanClientUpdate(c) ==
    LET params == c.params
        v1 == AddString(EmptyValues, "name", params.Name)
        v2 == IF params.StatementDescription # NilPtr
              THEN Add(v1, "statement_description",
                       Deref(params.StatementDescription))
              ELSE v1
    IN  Request("POST", "/plans/" \o QueryEscape(c.id),
                appendMetadata(v2, params.Metadata), "Plan", TRUE)

PlanClientDelete(c) ==
    Request("DELETE", "/plans/" \o QueryEscape(c.id), EmptyValues,
            "DeleteResp", TRUE)

PlanClientList(c) ==
    Request("GET", "/plans", listParams(c.limit, c.before, c.after),
            "ListMore", TRUE)

(* ---------------------------- CouponClient ---------------------------- *)

CouponClientCreate(c) ==
    LET params == c.params
        v1 == Add(EmptyValues, "duration", params.Duration)
        v2 == Add(v1, "percent_off", Itoa(params.PercentOff))
        v3 == AddString(v2, "id", params.ID)
        v4 == IF params.DurationInMonths # 0
              THEN Add(v3, "duration_in_months",
                       Itoa(params.DurationInMonths))
              ELSE v3
        v5 == IF params.MaxRedemptions # 0
              THEN Add(v4, "max_redemptions", Itoa(params.MaxRedemptions))
              ELSE v4
        v6 == IF params.AmountOff # 0
              THEN Add(Add(v5, "amount_off", Itoa(params.AmountOff)),
                       "currency", params.Currency)
              ELSE v5
        v7 == IF params.RedeemBy # NilPtr
              THEN Add(v6, "redeem_by", Itoa(Deref(params.RedeemBy).sec))
              ELSE v6
    IN  Request("POST", "/coupons", appendMetadata(v7, params.Metadata),
                "Coupon", TRUE)

CouponClientRetrieve(c) ==
    Request("GET", "/coupons/" \o QueryEscape(c.id), EmptyValues,
            "Coupon", TRUE)

CouponClientDelete(c) ==
    Request("DELETE", "/coupons/" \o QueryEscape(c.id), EmptyValues,
            "DeleteResp", TRUE)

CouponClientList(c) ==
    Request("GET", "/coupons", listParams(c.limit, c.before, c.after),
            "ListMore", TRUE)

(* ---------------------------- InvoiceClient --------------------------- *)

InvoiceClientRetrieve(c) ==
    Request("GET", "/invoices/" \o QueryEscape(c.id), EmptyValues,
            "Invoice", TRUE)

InvoiceClientRetrieveCustomer(c) ==
    Request("GET", "/invoices/upcoming",
            Add(EmptyValues, "customer", c.id), "Invoice", TRUE)

\* func (InvoiceClient) list(id string, limit int, before, after string)
InvoiceClientlist(id, limit, before, after) ==
    Request("GET", "/invoices",
            AddString(listParams(limit, before, after), "customer", id),
            "ListMore", TRUE)

InvoiceClientList(c) == InvoiceClientlist("", c.limit, c.before, c.after)

InvoiceClientCustomerList(c) ==
    InvoiceClientlist(c.id, c.limit, c.before, c.after)

(* -------------------------- InvoiceItemClient ------------------------- *)

\* (A variant that sends the magnitude of the amount.)
InvoiceItemClientCreateMagnitude(c) ==
    LET params == c.params
        v1 == Add(EmptyValues, "amount",
                  Itoa(IF params.Amount < 0 THEN 0 - params.Amount
                       ELSE params.Amount))
        v2 == Add(v1, "currency", params.Currency)
        v3 == Add(v2, "customer", params.Customer)
        v4 == AddString(v3, "description", params.Description)
        v5 == AddString(v4, "invoice", params.Invoice)
        v6 == AddString(v5, "subscription", params.Subscription)
    IN  Request("POST", "/invoiceitems",
                appendMetadata(v6, params.Metadata), "InvoiceItem", TRUE)

InvoiceItemClientCreate(c) ==
    LET params == c.params
        v1 == Add(EmptyValues, "amount", Itoa(params.Amount))
        v2 == Add(v1, "currency", params.Currency)
        v3 == Add(v2, "customer", params.Customer)
        v4 == AddString(v3, "description", params.Description)
        v5 == AddString(v4, "invoice", params.Invoice)
        v6 == AddString(v5, "subscription", params.Subscription)
    IN  Request("POST", "/invoiceitems",
                appendMetadata(v6, params.Metadata), "InvoiceItem", TRUE)

InvoiceItemClientRetrieve(c) ==
    Request("GET", "/invoiceitems/" \o QueryEscape(c.id), EmptyValues,
            "InvoiceItem", TRUE)

InvoiceItemClientUpdate(c) ==
    LET params == c.params
        v1 == AddString(EmptyValues, "description", params.Description)
        v2 == IF params.Amount # 0
              THEN Add(v1, "invoice", Itoa(params.Amount)) ELSE v1
    IN  Request("POST", "/invoiceitems/" \o QueryEscape(c.id),
                appendMetadata(v2, params.Metadata), "InvoiceItem", TRUE)

InvoiceItemClientDelete(c) ==
    Request("DELETE", "/invoiceitems/" \o QueryEscape(c.id), EmptyValues,
            "DeleteResp", TRUE)

\* func (InvoiceItemClient) list(id string, limit int, before, after string)
InvoiceItemClientlist(id, limit, before, after) ==
    Request("GET", "/invoiceitems",
            AddString(listParams(limit, before, after), "customer", id),
            "List", TRUE)

InvoiceItemClientList(c) ==
    InvoiceItemClientlist("", c.limit, c.before, c.after)

InvoiceItemClientCustomerList(c) ==
    InvoiceItemClientlist(c.id, c.limit, c.before, c.after)

(* ----------------------------- TokenClient ---------------------------- *)

TokenClientCreate(c) ==
    Request("POST", "/tokens",
            appendCardParams(EmptyValues, Deref(c.params.Card)),
            "Token", TRUE)

TokenClientRetrieve(c) ==
    Request("GET", "/tokens/" \o QueryEscape(c.id), EmptyValues,
            "Token", TRUE)

(* ------------------------- operation dispatch ------------------------- *)

\* The query call an operation makes for its arguments.
RequestOf(c) ==
    CASE c.op = "CustomerClient.Create" -> CustomerClientCreate(c)
      [] c.op = "CustomerClient.Retrieve" -> CustomerClientRetrieve(c)
      [] c.op = "CustomerClient.Update" -> CustomerClientUpdate(c)
      [] c.op = "CustomerClient.CreateCard" -> CustomerClientCreateCard(c)
      [] c.op = "CustomerClient.UpdateCard" -> CustomerClientUpdateCard(c)
      [] c.op = "CustomerClient.DeleteCard" -> CustomerClientDeleteCard(c)
      [] c.op = "CustomerClient.Delete" -> CustomerClientDelete(c)
      [] c.op = "CustomerClient.List" -> CustomerClientList(c)
      [] c.op = "CardClient.Create" -> CardClientCreate(c)
      [] c.op = "CardClient.Update" -> CardClientUpdate(c)
      [] c.op = "CardClient.Delete" -> CardClientDelete(c)
      [] c.op = "CardClient.Retrieve" -> CardClientRetrieve(c)
      [] c.op = "CardClient.List" -> CardClientList(c)
      [] c.op = "ChargeClient.Create" -> ChargeClientCreate(c)
      [] c.op = "ChargeClient.Retrieve" -> ChargeClientRetrieve(c)
      [] c.op = "ChargeClient.Refund" -> ChargeClientRefund(c)
      [] c.op = "ChargeClient.RefundAmount" -> ChargeClientRefundAmount(c)
      [] c.op = "ChargeClient.List" -> ChargeClientList(c)
      [] c.op = "ChargeClient.ListN" -> ChargeClientListN(c)
      [] c.op = "ChargeClient.CustomerList" -> ChargeClientCustomerList(c)
      [] c.op = "ChargeClient.CustomerListN" -> ChargeClientCustomerListN(c)
      [] c.op = "SubscriptionClient.Create" -> SubscriptionClientCreate(c)
      [] c.op = "SubscriptionClient.Update" -> SubscriptionClientUpdate(c)
      [] c.op = "SubscriptionClient.Cancel" -> SubscriptionClientCancel(c)
      [] c.op = "SubscriptionClient.Retrieve" -> SubscriptionClientRetrieve(c)
      [] c.op = "SubscriptionClient.List" -> SubscriptionClientList(c)
      [] c.op = "PlanClient.Create" -> PlanClientCreate(c)
      [] c.op = "PlanClient.Retrieve" -> PlanClientRetrieve(c)
      [] c.op = "PlanClient.Update" -> PlanClientUpdate(c)
      [] c.op = "PlanClient.Delete" -> PlanClientDelete(c)
      [] c.op = "PlanClient.List" -> PlanClientList(c)
      [] c.op = "CouponClient.Create" -> CouponClientCreate(c)
      [] c.op = "CouponClient.Retrieve" -> CouponClientRetrieve(c)
      [] c.op = "CouponClient.Delete" -> CouponClientDelete(c)
      [] c.op = "CouponClient.List" -> CouponClientList(c)
      [] c.op = "InvoiceClient.Retrieve" -> InvoiceClientRetrieve(c)
      [] c.op = "InvoiceClient.RetrieveCustomer" ->
            InvoiceClientRetrieveCustomer(c)
      [] c.op = "InvoiceClient.List" -> InvoiceClientList(c)
      [] c.op = "InvoiceClient.CustomerList" -> InvoiceClientCustomerList(c)
      [] c.op = "InvoiceItemClient.Create" -> InvoiceItemClientCreate(c)
      [] c.op = "InvoiceItemClient.Retrieve" -> InvoiceItemClientRetrieve(c)
      [] c.op = "InvoiceItemClient.Update" -> InvoiceItemClientUpdate(c)
      [] c.op = "InvoiceItemClient.Delete" -> InvoiceItemClientDelete(c)
      [] c.op = "InvoiceItemClient.List" -> InvoiceItemClientList(c)
      [] c.op = "InvoiceItemClient.CustomerList" ->
            InvoiceItemClientCustomerList(c)
      [] c.op = "TokenClient.Create" -> TokenClientCreate(c)
      [] c.op = "TokenClient.Retrieve" -> TokenClientRetrieve(c)

\* The operations whose return statement is guarded by if err != nil.
GuardedDeleteOps ==
    {"PlanClient.Delete", "CouponClient.Delete", "InvoiceItemClient.Delete"}

UnguardedDeleteOps ==
    {"CustomerClient.Delete", "CustomerClient.DeleteCard", "CardClient.Delete"}

GuardedListOps ==
    {"ChargeClient.List", "ChargeClient.ListN", "ChargeClient.CustomerList",
     "ChargeClient.CustomerListN"}

UnguardedListOps ==
    {"CustomerClient.List", "InvoiceItemClient.List",
     "InvoiceItemClient.CustomerList"}

ListMoreOps ==
    {"CardClient.List", "SubscriptionClient.List", "PlanClient.List",
     "CouponClient.List", "InvoiceClient.List", "InvoiceClient.CustomerList"}

\* The return statement of an operation, applied to what query left behind.
ReturnOf(c, q) ==
    CASE c.op \in GuardedDeleteOps -> ReturnDeletedGuarded(q)
      [] c.op \in UnguardedDeleteOps -> ReturnDeleted(q)
      [] c.op \in GuardedListOps -> ReturnDataGuarded(q)
      [] c.op \in UnguardedListOps -> ReturnData(q)
      [] c.op \in ListMoreOps -> ReturnDataMore(q)
      [] OTHER -> ReturnTarget(q)

\* (A variant that calls query a second time after an error.)
AfterQueryRetryOnError(n, q) ==
    IF q.err # Nil /\ n < 2 THEN "retry" ELSE "return"

\* What an operation does once query has returned: every operation goes on
\* to its return statement, none calls query again.
AfterQuery(n, q) == "return"

(* --------------------------- call arguments --------------------------- *)

IDs == {"id_1", "a/b"}

Strs(x) == {"", x}

BoolPtrs == {NilPtr, Ptr(TRUE), Ptr(FALSE)}

\* A *UnixTime argument: nil or one second after the epoch.
TimePtrs == {NilPtr, Ptr([sec |-> 1, nsec |-> 0])}

Metadatas == {[k \in {} |-> ""], ("k" :> "v")}

FullCard ==
    [Name |-> "George Costanza", Number |-> "4242424242424242",
     ExpMonth |-> 6, ExpYear |-> 2030, CVC |-> "123",
     Address1 |-> "a1", Address2 |-> "a2", AddressCountry |-> "US",
     AddressState |-> "NY", AddressZip |-> "10001"]

YearOnlyCard ==
    [Name |-> "", Number |-> "4242424242424242",
     ExpMonth |-> 0, ExpYear |-> 2030, CVC |-> "",
     Address1 |-> "", Address2 |-> "", AddressCountry |-> "",
     AddressState |-> "", AddressZip |-> ""]

CardParamsSet == {FullCard, YearOnlyCard}

CardPtrs == {NilPtr} \cup {Ptr(c) : c \in CardParamsSet}

CustomerParamsSet ==
    [Email : Strs("e@x"), Description : Strs("d"), Card : CardPtrs,
     Token : Strs("tok_1"), Coupon : Strs("c_1"), Plan : Strs("plan1"),
     Quantity : Ints, TrialEnd : TimePtrs,
     Balance : {NilPtr} \cup {Ptr(n) : n \in Ints},
     DefaultCard : Strs("card_1"), Metadata : Metadatas]

ChargeParamsSet ==
    [Amount : Ints, Currency : {"usd"}, Customer : Strs("id_1"),
     Card : CardPtrs, Token : Strs("tok_1"), Description : Strs("d"),
     Capture : BoolPtrs, StatementDescription : Strs("s"),
     Metadata : Metadatas]

SubscriptionParamsSet ==
    [Plan : Strs("plan1"), Coupon : Strs("c_1"), Prorate : BOOLEAN,
     TrialEnd : TimePtrs, Card : CardPtrs, Token : Strs("tok_1"),
     Quantity : Ints]

PlanParamsSet ==
    [ID : {"plan1"}, Amount : Ints, Currency : {"usd"},
     Interval : {"month"}, IntervalCount : 0..(MaxInt + 1),
     Name : Strs("gold"), TrialPeriodDays : 0..MaxInt,
     StatementDescription : {NilPtr, Ptr(""), Ptr("s")},
     Metadata : Metadatas]

CouponParamsSet ==
    [ID : Strs("c_1"), PercentOff : 0..MaxInt, Duration : {"once"},
     AmountOff : Ints, Currency : {"usd"}, DurationInMonths : 0..MaxInt,
     MaxRedemptions : 0..MaxInt, RedeemBy : TimePtrs, Metadata : Metadatas]

InvoiceItemParamsSet ==
    [Customer : {"id_1"}, Amount : Ints, Currency : {"usd"},
     Description : Strs("d"), Invoice : Strs("in_1"),
     Subscription : Strs("sub_1"), Metadata : Metadatas]

\* The arguments of the List operations.
Pages == [limit : 0..MaxInt, before : Strs("id_1"), after : Strs("id_2")]

Call0(o) == {[op |-> o]}
Call1(o) == {[op |-> o, id |-> i] : i \in IDs}
Call2(o) == {[op |-> o, id |-> i, id2 |-> j] : i \in IDs, j \in IDs}
CallP(o, P) == {[op |-> o, params |-> p] : p \in P}
Call1P(o, P) == {[op |-> o, id |-> i, params |-> p] : i \in IDs, p \in P}
CallL(o) ==
    {[op |-> o, limit |-> g.limit, before |-> g.before, after |-> g.after]
        : g \in Pages}
Call1L(o) ==
    {[op |-> o, id |-> i, limit |-> g.limit, before |-> g.before,
      after |-> g.after] : i \in IDs, g \in Pages}
CallN(o) == {[op |-> o, count |-> n, offset |-> m] : n \in Ints, m \in Ints}
Call1N(o) ==
    {[op |-> o, id |-> i, count |-> n, offset |-> m]
        : i \in IDs, n \in Ints, m \in Ints}

\* Card operations: a token, or card details when the token is empty.
CardCreateCalls(o) ==
    {[op |-> o, id |-> i, token |-> t, card |-> k]
        : i \in IDs, t \in Strs("tok_1"), k \in CardPtrs \ {NilPtr}}
    \cup {[op |-> o, id |-> i, token |-> "tok_1", card |-> NilPtr] : i \in IDs}
CardUpdateCalls(o) ==
    {[op |-> o, id |-> i, id2 |-> j, card |-> k]
        : i \in IDs, j \in IDs, k \in CardPtrs \ {NilPtr}}

\* Every call a caller may make: each operation with each of its arguments.
Calls ==
    CallP("CustomerClient.Create", CustomerParamsSet)
    \cup Call1("CustomerClient.Retrieve")
    \cup Call1P("CustomerClient.Update", CustomerParamsSet)
    \cup CardCreateCalls("CustomerClient.CreateCard")
    \cup CardUpdateCalls("CustomerClient.UpdateCard")
    \cup Call2("CustomerClient.DeleteCard")
    \cup Call1("CustomerClient.Delete")
    \cup CallL("CustomerClient.List")
    \cup CardCreateCalls("CardClient.Create")
    \cup CardUpdateCalls("CardClient.Update")
    \cup Call2("CardClient.Delete")
    \cup Call2("CardClient.Retrieve")
    \cup Call1L("CardClient.List")
    \cup CallP("ChargeClient.Create", ChargeParamsSet)
    \cup Call1("ChargeClient.Retrieve")
    \cup Call1("ChargeClient.Refund")
    \cup {[op |-> "ChargeClient.RefundAmount", id |-> i, amt |-> n]
            : i \in IDs, n \in Ints}
    \cup Call0("ChargeClient.List")
    \cup CallN("ChargeClient.ListN")
    \cup Call1("ChargeClient.CustomerList")
    \cup Call1N("ChargeClient.CustomerListN")
    \cup Call1P("SubscriptionClient.Create", SubscriptionParamsSet)
    \cup {[op |-> "SubscriptionClient.Update", id |-> i, id2 |-> j,
           params |-> p] : i \in IDs, j \in IDs, p \in SubscriptionParamsSet}
    \cup {[op |-> "SubscriptionClient.Cancel", id |-> i, id2 |-> j,
           atPeriodEnd |-> b] : i \in IDs, j \in IDs, b \in BOOLEAN}
    \cup Call2("SubscriptionClient.Retrieve")
    \cup Call1L("SubscriptionClient.List")
    \cup CallP("PlanClient.Create", PlanParamsSet)
    \cup Call1("PlanClient.Retrieve")
    \cup Call1P("PlanClient.Update", PlanParamsSet)
    \cup Call1("PlanClient.Delete")
    \cup CallL("PlanClient.List")
    \cup CallP("CouponClient.Create", CouponParamsSet)
    \cup Call1("CouponClient.Retrieve")
    \cup Call1("CouponClient.Delete")
    \cup CallL("CouponClient.List")
    \cup Call1("InvoiceClient.Retrieve")
    \cup Call1("InvoiceClient.RetrieveCustomer")
    \cup CallL("InvoiceClient.List")
    \cup Call1L("InvoiceClient.CustomerList")
    \cup CallP("InvoiceItemClient.Create", InvoiceItemParamsSet)
    \cup Call1("InvoiceItemClient.Retrieve")
    \cup Call1P("InvoiceItemClient.Update", InvoiceItemParamsSet)
    \cup Call1("InvoiceItemClient.Delete")
    \cup CallL("InvoiceItemClient.List")
    \cup Call1L("InvoiceItemClient.CustomerList")
    \cup {[op |-> "TokenClient.Create", params |-> [Card |-> k]]
            : k \in CardPtrs \ {NilPtr}}
    \cup Call1("TokenClient.Retrieve")

\* The calls two concurrent callers draw from.
ConcurrentCalls ==
    { [op |-> "CustomerClient.Create",
       params |-> [Email |-> "e@x", Description |-> "", Card |-> NilPtr,
                   Token |-> "tok_1", Coupon |-> "", Plan |-> "plan1",
                   Quantity |-> 0, TrialEnd |-> NilPtr, Balance |-> NilPtr,
                   DefaultCard |-> "", Metadata |-> [k \in {} |-> ""]]],
      [op |-> "CustomerClient.Create",
       params |-> [Email |-> "", Description |-> "d", Card |-> Ptr(FullCard),
                   Token |-> "", Coupon |-> "c_1", Plan |-> "",
                   Quantity |-> 0, TrialEnd |-> NilPtr, Balance |-> Ptr(0),
                   DefaultCard |-> "", Metadata |-> ("k" :> "v")]],
      [op |-> "SubscriptionClient.Create", id |-> "id_1",
       params |-> [Plan |-> "plan1", Coupon |-> "", Prorate |-> FALSE,
                   TrialEnd |-> NilPtr, Card |-> NilPtr, Token |-> "",
                   Quantity |-> 0]],
      [op |-> "SubscriptionClient.Cancel", id |-> "id_1", id2 |-> "a/b",
       atPeriodEnd |-> TRUE],
      [op |-> "CustomerClient.Delete", id |-> "id_1"],
      [op |-> "CustomerClient.Delete", id |-> "a/b"],
      [op |-> "PlanClient.Delete", id |-> "id_1"],
      [op |-> "CardClient.List", id |-> "id_1", limit |-> 1,
       before |-> "", after |-> "id_2"],
      [op |-> "ChargeClient.CustomerList", id |-> "id_1"] }

(* ------------------------------ UnixTime ------------------------------ *)

\* Bound of the seconds of the generated times.
MaxSec == 20

\* time.Millisecond, in nanoseconds.
Millisecond == 1000000

\* A time.Time: seconds since the epoch and nanoseconds within the second.
NanoSamples == {0, 1, 999999, 1000000, 999999999}

Times == [sec : (0 - MaxSec)..MaxSec, nsec : NanoSamples]

Epoch == [sec |-> 0, nsec |-> 0]

UnixTimeUnmarshalError == "stripe: invalid timestamp"

DigitChar(d) == CHOOSE c \in DigitChars : DigitValue[c] = d

\* The decimal digits of n >= 0.
RECURSIVE FormatDigits(_)
FormatDigits(n) ==
    IF n < 10 THEN <<DigitChar(n)>>
    ELSE FormatDigits(n \div 10) \o <<DigitChar(n % 10)>>

\* strconv.AppendInt(nil, n, 10)
AppendInt(n) ==
    IF n < 0 THEN <<"-">> \o FormatDigits(0 - n) ELSE FormatDigits(n)

\* t.UnixNano() / int64(time.Millisecond): Go's division truncates toward
\* zero; the nanoseconds are sec * 10^9 + nsec.
UnixNanoDiv(t, unit) ==
    LET perSec == (1000000000 \div unit)
        q == t.nsec \div unit
    IN  IF t.sec >= 0 \/ t.nsec % unit = 0
        THEN t.sec * perSec + q
        ELSE t.sec * perSec + q + 1

\* (A variant that writes Unix seconds.)
MarshalJSONSeconds(t) == AppendInt(t.sec)

\* func (t UnixTime) MarshalJSON() ([]byte, error)
MarshalJSON(t) == AppendInt(UnixNanoDiv(t, Millisecond))

\* The value of a string of decimal digits.
RECURSIVE DigitsValue(_)
DigitsValue(s) ==
    IF Len(s) = 0 THEN 0
    ELSE 10 * DigitsValue(SubSeq(s, 1, Len(s) - 1)) + DigitValue[s[Len(s)]]

\* strconv.ParseInt(str, 10, 64): an optional sign and at least one digit.
ParseInt(str) ==
    LET signed == Len(str) > 0 /\ str[1] \in {"+", "-"}
        digits == IF signed THEN Tail(str) ELSE str
    IN  IF Len(digits) = 0 \/ ~IsDigits(digits)
        THEN [i |-> 0, err |-> ErrSyntax]
        ELSE [i |-> IF signed /\ str[1] = "-" THEN 0 - DigitsValue(digits)
                    ELSE DigitsValue(digits),
              err |-> Nil]

JSONNull == <<"n", "u", "l", "l">>

\* func (t *UnixTime) UnmarshalJSON(data []byte) error: the receiver after
\* the call and the error.
UnmarshalJSON(t, data) ==
    IF data = JSONNull THEN [t |-> Epoch, err |-> Nil]
    ELSE LET p == ParseInt(data)
         IN  IF p.err # Nil THEN [t |-> t, err |-> UnixTimeUnmarshalError]
             ELSE [t |-> [sec |-> p.i, nsec |-> 0], err |-> Nil]

\* JSON bytes that do not come from MarshalJSON.
RawJSON ==
    { JSONNull, <<>>, <<"a">>, <<"1", "2">>, <<"+", "5">>, <<"-", "3">>,
      <<"-">>, <<"1", ".", "5">> }

(* -------------------------- state machine ----------------------------- *)

\* No caller of the resource clients.
NoClient ==
    /\ pc = <<>> /\ call = <<>> /\ req = <<>>
    /\ resp = <<>> /\ ret = <<>> /\ nq = <<>>

\* No UnixTime in use.
NoTime ==
    /\ ut = Epoch /\ js = <<>> /\ jsrc = "none"
    /\ ut2 = Epoch /\ uerr = NotCalled

\* No card number in use.
NoCard ==
    /\ card = <<>> /\ valid = NotCalled /\ err = NotCalled
    /\ doubled = {} /\ brand = NotCalled /\ done = {}

\* A caller holds a card number and has called neither function yet.
Init ==
    /\ card \in Inputs
    /\ valid = NotCalled
    /\ err = NotCalled
    /\ doubled = {}
    /\ brand = NotCalled
    /\ done = {}
    /\ NoClient
    /\ NoTime

\* valid, err := IsLuhnValid(card)
CallIsLuhnValid ==
    /\ LET r == IsLuhnValid(card)
       IN  /\ valid' = r.valid
           /\ err' = r.err
           /\ doubled' = r.doubled
    /\ done' = done \cup {"IsLuhnValid"}
    /\ UNCHANGED <<card, brand, clientVars, timeVars>>

\* brand := GetCardType(card)
CallGetCardType ==
    /\ brand' = GetCardType(card)
    /\ done' = done \cup {"GetCardType"}
    /\ UNCHANGED <<card, valid, err, doubled, clientVars, timeVars>>

Next ==
    \/ CallIsLuhnValid
    \/ CallGetCardType

Spec == Init /\ [][Next]_vars

(* ---------------------- resource client callers ----------------------- *)

None == [op |-> "none"]

\* The callers of a run: one caller draws from every call, two concurrent
\* callers draw from the concurrent calls.
Pool == IF DOMAIN pc = {1} THEN Calls ELSE ConcurrentCalls

Idle(callers) ==
    /\ pc = [c \in callers |-> "idle"]
    /\ call = [c \in callers |-> None]
    /\ req = [c \in callers |-> None]
    /\ resp = [c \in callers |-> None]
    /\ ret = [c \in callers |-> None]
    /\ nq = [c \in callers |-> 0]

InitClient == Idle({1}) /\ NoCard /\ NoTime

InitConcurrent == Idle({1, 2}) /\ NoCard /\ NoTime

\* A caller enters an operation: the operation builds its form values and
\* calls query, which sends the request and blocks.
Invoke(self) ==
    /\ pc[self] = "idle"
    /\ \E c \in Pool :
        /\ call' = [call EXCEPT ![self] = c]
        /\ req' = [req EXCEPT ![self] = RequestOf(c)]
    /\ nq' = [nq EXCEPT ![self] = 1]
    /\ resp' = [resp EXCEPT ![self] = None]
    /\ ret' = [ret EXCEPT ![self] = None]
    /\ pc' = [pc EXCEPT ![self] = "query"]
    /\ UNCHANGED <<cardVars, timeVars>>

\* query returns to the operation: the exchange failed, or its body was
\* decoded into the operation's target.
Respond(self) ==
    /\ pc[self] = "query"
    /\ \E o \in Outcomes(req[self]) :
        resp' = [resp EXCEPT ![self] = query(req[self], o)]
    /\ pc' = [pc EXCEPT ![self] = "answered"]
    /\ UNCHANGED <<call, req, ret, nq, cardVars, timeVars>>

\* The operation runs from the return of query to its return statement.
Return(self) ==
    /\ pc[self] = "answered"
    /\ IF AfterQuery(nq[self], resp[self]) = "retry"
       THEN /\ pc' = [pc EXCEPT ![self] = "query"]
            /\ nq' = [nq EXCEPT ![self] = @ + 1]
            /\ UNCHANGED ret
       ELSE /\ pc' = [pc EXCEPT ![self] = "returned"]
            /\ ret' = [ret EXCEPT ![self] = ReturnOf(call[self], resp[self])]
            /\ UNCHANGED nq
    /\ UNCHANGED <<call, req, resp, cardVars, timeVars>>

\* The caller is free for its next call; nothing of the last one is kept.
Finish(self) ==
    /\ pc[self] = "returned"
    /\ pc' = [pc EXCEPT ![self] = "idle"]
    /\ call' = [call EXCEPT ![self] = None]
    /\ req' = [req EXCEPT ![self] = None]
    /\ resp' = [resp EXCEPT ![self] = None]
    /\ ret' = [ret EXCEPT ![self] = None]
    /\ nq' = [nq EXCEPT ![self] = 0]
    /\ UNCHANGED <<cardVars, timeVars>>

NextClient ==
    \/ \E self \in DOMAIN pc : Invoke(self)
    \/ \E self \in DOMAIN pc : Respond(self)
    \/ \E self \in DOMAIN pc : Return(self)
    \/ \E self \in DOMAIN pc : Finish(self)

SpecClient == InitClient /\ [][NextClient]_vars

SpecConcurrent == InitConcurrent /\ [][NextClient]_vars

(* ------------------------- UnixTime in JSON --------------------------- *)

\* A time to marshal and foreign JSON bytes to unmarshal.
InitTime ==
    /\ ut \in Times
    /\ js \in RawJSON
    /\ jsrc = "raw"
    /\ ut2 = Epoch
    /\ uerr = NotCalled
    /\ NoCard
    /\ NoClient

\* js, _ = ut.MarshalJSON()
CallMarshalJSON ==
    /\ js' = MarshalJSON(ut)
    /\ jsrc' = "MarshalJSON"
    /\ ut2' = Epoch
    /\ uerr' = NotCalled
    /\ UNCHANGED <<ut, cardVars, clientVars>>

\* uerr = ut2.UnmarshalJSON(js)
CallUnmarshalJSON ==
    /\ LET r == UnmarshalJSON(ut2, js)
       IN  ut2' = r.t /\ uerr' = r.err
    /\ UNCHANGED <<ut, js, jsrc, cardVars, clientVars>>

NextTime ==
    \/ CallMarshalJSON
    \/ CallUnmarshalJSON

SpecTime == InitTime /\ [][NextTime]_vars

(* ------------------------------ claims -------------------------------- *)

LuhnCalled == "IsLuhnValid" \in done
TypeCalled == "GetCardType" \in done

HasPrefix(s, p) == Len(s) >= Len(p) /\ SubSeq(s, 1, Len(p)) = p

\* The digit at distance p from the end of s (0 is the rightmost digit).
DigitFromEnd(s, p) == DigitValue[s[Len(s) - p]]

\* The textbook Luhn sum: digits at odd distance from the end are doubled,
\* minus 9 when the doubled value exceeds 9; the others are added unchanged.
StdDouble(d) == IF 2 * d > 9 THEN 2 * d - 9 ELSE 2 * d

RECURSIVE StdLuhnSum(_, _)
StdLuhnSum(s, p) ==
    IF p >= Len(s) THEN 0
    ELSE (IF p % 2 = 1 THEN StdDouble(DigitFromEnd(s, p))
                       ELSE DigitFromEnd(s, p))
         + StdLuhnSum(s, p + 1)

\* C1: for every string of decimal digits IsLuhnValid returns true exactly
\* when the standard Luhn sum (odd distances from the end doubled, minus 9
\* above 9, the rest unchanged) is divisible by 10.
C1_LuhnIsStandardSum ==
    (LuhnCalled /\ IsDigits(card))
        => (valid = (StdLuhnSum(card, 0) % 10 = 0))

\* A valid four-digit number whose doubled digit at distance 1 exceeds 4.
C1_Witness ==
    /\ LuhnCalled /\ IsDigits(card) /\ Len(card) = 4
    /\ valid = TRUE
    /\ DigitFromEnd(card, 1) > 4

\* C2: IsLuhnValid returns a non-nil error, with result false, if and only
\* if the input holds a character that is not a decimal digit; "abc123"
\* yields an error.
C2_ErrorIffNonDigit ==
    LuhnCalled =>
        /\ (err # Nil) <=> ~IsDigits(card)
        /\ (err # Nil) => (valid = FALSE)
        /\ (card = CardAbc123) => (err # Nil)

C2_Witness ==
    LuhnCalled /\ card = CardAbc123 /\ err = ErrSyntax /\ valid = FALSE

\* C3: single-digit error detection: when IsLuhnValid accepts a digit
\* string, it rejects every string that differs from it in exactly one
\* digit.
C3_SingleDigitErrorDetected ==
    (LuhnCalled /\ IsDigits(card) /\ valid = TRUE) =>
        \A i \in 1..Len(card) : \A c \in DigitChars \ {card[i]} :
            LET r == IsLuhnValid([card EXCEPT ![i] = c])
            IN  r.valid = FALSE /\ r.err = Nil

C3_Witness ==
    LuhnCalled /\ IsDigits(card) /\ valid = TRUE /\ Len(card) = MaxLen

CardTypes ==
    {Visa, MasterCard, AmericanExpress, DinersClub, Discover, JCB, UnknownCard}

\* C4: GetCardType is total on non-empty digit strings of any length: it
\* returns one of the seven labels and never panics.
C4_TotalOnDigitStrings ==
    (TypeCalled /\ IsDigits(card) /\ Len(card) >= 1) => brand \in CardTypes

\* C5: for digit strings of length at least 4 GetCardType follows the
\* prefix table: 4 Visa; 51..55 MasterCard; 34, 37 American Express; 36,
\* 300..305 Diners Club; 6011 Discover; 2131, 1800 JCB.
C5_PrefixTable ==
    (TypeCalled /\ IsDigits(card) /\ Len(card) >= 4) =>
        /\ HasPrefix(card, <<"4">>) => brand = Visa
        /\ (\E d \in {"1", "2", "3", "4", "5"} : HasPrefix(card, <<"5", d>>))
              => brand = MasterCard
        /\ (HasPrefix(card, <<"3","4">>) \/ HasPrefix(card, <<"3","7">>))
              => brand = AmericanExpress
        /\ HasPrefix(card, <<"3","6">>) => brand = DinersClub
        /\ (\E d \in {"0", "1", "2", "3", "4", "5"} :
                HasPrefix(card, <<"3", "0", d>>))
              => brand = DinersClub
        /\ HasPrefix(card, <<"6","0","1","1">>) => brand = Discover
        /\ (HasPrefix(card, <<"2","1","3","1">>)
              \/ HasPrefix(card, <<"1","8","0","0">>)) => brand = JCB

C5_Witness ==
    /\ TypeCalled /\ IsDigits(card) /\ Len(card) = 4
    /\ HasPrefix(card, <<"5","5">>)
    /\ brand = MasterCard

\* The two-digit and three-digit prefixes of American Express and Diners
\* Club.
AmexDinersPrefix(s) ==
    \/ \E d \in {"4", "7", "6"} : HasPrefix(s, <<"3", d>>)
    \/ \E d \in {"0", "1", "2", "3", "4", "5"} : HasPrefix(s, <<"3", "0", d>>)

\* C6: a digit string of length at least 3 that begins with 3 and has none
\* of the prefixes 34, 37, 36, 300..305 is classified JCB.
C6_Leading3FallsBackToJCB ==
    (TypeCalled /\ IsDigits(card) /\ Len(card) >= 3
        /\ HasPrefix(card, <<"3">>) /\ ~AmexDinersPrefix(card))
        => brand = JCB

\* The prefixes of the brand table, the leading 3 of the JCB fallback
\* included.
ListedPrefix(s) ==
    \/ HasPrefix(s, <<"4">>)
    \/ \E d \in {"1", "2", "3", "4", "5"} : HasPrefix(s, <<"5", d>>)
    \/ HasPrefix(s, <<"3">>)
    \/ HasPrefix(s, <<"6","0","1","1">>)
    \/ HasPrefix(s, <<"2","1","3","1">>)
    \/ HasPrefix(s, <<"1","8","0","0">>)

\* C7: a digit string of length at least 4 that matches none of the listed
\* brand prefixes is classified Unknown.
C7_NoPrefixIsUnknown ==
    (TypeCalled /\ IsDigits(card) /\ Len(card) >= 4 /\ ~ListedPrefix(card))
        => brand = UnknownCard

C7_Witness ==
    TypeCalled /\ card = Card9999 /\ brand = UnknownCard

\* The distances from the end of card (0 is the rightmost digit) of the
\* given parity.
DistancesOfParity(r) == {p \in 0..(Len(card) - 1) : p % 2 = r}

\* C8 as stated: the doubled digits are exactly those at an even index
\* counting from the end (0-indexed), and the rightmost digit is never
\* doubled.
C8_DoubledAtEvenFromEnd ==
    (LuhnCalled /\ IsDigits(card)) =>
        /\ doubled = DistancesOfParity(0)
        /\ 0 \notin doubled

\* C8 amended: the doubled digits are exactly those at an odd index
\* counting from the end (0-indexed), and the rightmost digit is never
\* doubled.
C8_DoubledAtOddFromEnd ==
    (LuhnCalled /\ IsDigits(card)) =>
        /\ doubled = DistancesOfParity(1)
        /\ 0 \notin doubled

C8_Witness ==
    LuhnCalled /\ IsDigits(card) /\ Len(card) = 4 /\ doubled = {1, 3}

\* C9: IsLuhnValid("4242424242424242") is (true, nil) and
\* IsLuhnValid("4242424242424241") is (false, nil).
C9_TestCardNumbers ==
    LuhnCalled =>
        /\ (card = Card4242) => (valid = TRUE /\ err = Nil)
        /\ (card = Card4241) => (valid = FALSE /\ err = Nil)

C9_Witness ==
    LuhnCalled /\ card = Card4242 /\ valid = TRUE /\ err = Nil

\* C10: GetCardType("4242424242424242") is Visa,
\* GetCardType("6011000000000000") is Discover and
\* GetCardType("340000000000009") is American Express.
C10_SampleBrands ==
    TypeCalled =>
        /\ (card = Card4242) => brand = Visa
        /\ (card = CardDiscover) => brand = Discover
        /\ (card = CardAmex) => brand = AmericanExpress

C10_Witness ==
    TypeCalled /\ card = CardAmex /\ brand = AmericanExpress

(* ----------------------- claims: resource clients --------------------- *)

Callers == DOMAIN pc

\* The caller has entered an operation and its request is built.
Sent(c) == pc[c] # "idle"

\* The operation of the caller has returned.
Returned(c) == pc[c] = "returned"

CustomerWriteOps == {"CustomerClient.Create", "CustomerClient.Update"}

\* C12 (as claimed): in CustomerClient.Create and Update the form key of
\* each optional field of CustomerParams (Email, Description, Coupon, Plan,
\* Quantity, TrialEnd, Balance, DefaultCard, Token) is in the request if
\* and only if the field is set to a non-default value, and no key is sent
\* with an empty value.
C12_AddIfPresent ==
    \A c \in Callers :
        (Sent(c) /\ call[c].op \in CustomerWriteOps) =>
            LET p == call[c].params
                v == req[c].values
            IN  /\ Has(v, "email") <=> p.Email # ""
                /\ Has(v, "description") <=> p.Description # ""
                /\ Has(v, "coupon") <=> p.Coupon # ""
                /\ Has(v, "plan") <=> p.Plan # ""
                /\ Has(v, "quantity") <=> p.Quantity # 0
                /\ Has(v, "trial_end") <=> p.TrialEnd # NilPtr
                /\ Has(v, "account_balance") <=> p.Balance # NilPtr
                /\ Has(v, "default_card") <=> p.DefaultCard # ""
                /\ Has(v, "card") <=> p.Token # ""
                /\ \A k \in DOMAIN v : \A i \in 1..Len(v[k]) : v[k][i] # ""

\* C13: every operation returns exactly the error query returned, nil if
\* and only if query returned nil; a Retrieve whose query fails returns a
\* non-nil error.
C13_ErrorPropagated ==
    \A c \in Callers :
        Returned(c) =>
            /\ ret[c].err = resp[c].err
            /\ (ret[c].err = Nil) <=> (resp[c].err = Nil)

C13_Witness ==
    \E c \in Callers :
        /\ Returned(c)
        /\ call[c].op = "CustomerClient.Retrieve"
        /\ resp[c].err = ErrAPI
        /\ ret[c].err = ErrAPI

\* C14: every operation calls query exactly once per call, whether query
\* succeeds or fails; a failed query is not retried.
C14_OneQueryPerCall ==
    \A c \in Callers :
        /\ Sent(c) => nq[c] = 1
        /\ pc[c] = "idle" => nq[c] = 0

C14_Witness ==
    \E c \in Callers :
        /\ Returned(c)
        /\ call[c].op = "PlanClient.Delete"
        /\ resp[c].err = ErrTransport
        /\ nq[c] = 1

DeleteOps == GuardedDeleteOps \cup UnguardedDeleteOps

\* The resource a Delete call identifies.
DeletedResource(c) ==
    CASE c.op = "CustomerClient.Delete" -> "/customers/" \o QueryEscape(c.id)
      [] c.op \in {"CustomerClient.DeleteCard", "CardClient.Delete"} ->
            "/customers/" \o QueryEscape(c.id) \o "/cards/"
                \o QueryEscape(c.id2)
      [] c.op = "PlanClient.Delete" -> "/plans/" \o QueryEscape(c.id)
      [] c.op = "CouponClient.Delete" -> "/coupons/" \o QueryEscape(c.id)
      [] c.op = "InvoiceItemClient.Delete" ->
            "/invoiceitems/" \o QueryEscape(c.id)

\* C15: every Delete operation issues one DELETE request for the resource
\* it identifies and returns the deleted flag of the envelope query decoded
\* together with query's error; the flag is false when query returned an
\* error.
C15_DeleteReturnsEnvelope ==
    \A c \in Callers :
        (Sent(c) /\ call[c].op \in DeleteOps) =>
            /\ req[c].method = "DELETE"
            /\ req[c].path = DeletedResource(call[c])
            /\ req[c].values = [k \in {} |-> <<>>]
            /\ nq[c] = 1
            /\ Returned(c) =>
                /\ ret[c].val = resp[c].target.deleted
                /\ ret[c].err = resp[c].err
                /\ resp[c].err # Nil => ret[c].val = FALSE

C15_Witness ==
    /\ \E c \in Callers :
        /\ Returned(c)
        /\ call[c].op = "CustomerClient.Delete"
        /\ resp[c].err = Nil
        /\ resp[c].target.deleted = FALSE
        /\ ret[c].val = FALSE

ListOps == GuardedListOps \cup UnguardedListOps \cup ListMoreOps

\* C16 (as claimed): every List operation hands query a decode target that
\* query can fill, and after a successful query returns the records of the
\* envelope in their order, with the has_more flag where the operation
\* returns one.
C16_ListTargetFillable ==
    \A c \in Callers :
        (Sent(c) /\ call[c].op \in ListOps) =>
            /\ req[c].pointer
            /\ (Returned(c) /\ resp[c].err = Nil) =>
                /\ ret[c].val = resp[c].target.data
                /\ call[c].op \in ListMoreOps =>
                        ret[c].more = resp[c].target.more

AmountKeys == {"amount", "amount_off", "account_balance"}

NegativeNumerals == {Itoa(n) : n \in {m \in Ints : m < 0}}

\* C19 (as claimed): every monetary amount an operation puts into a request
\* is non-negative.
C19_AmountsNonNegative ==
    \A c \in Callers :
        Sent(c) =>
            \A k \in AmountKeys \cap DOMAIN req[c].values :
                req[c].values[k][1] \notin NegativeNumerals

\* The amount the caller passed, and the key it is sent under.
AmountArgument(c) ==
    CASE c.op = "ChargeClient.Create" ->
            [key |-> "amount", set |-> TRUE, n |-> c.params.Amount]
      [] c.op = "ChargeClient.RefundAmount" ->
            [key |-> "amount", set |-> TRUE, n |-> c.amt]
      [] c.op = "PlanClient.Create" ->
            [key |-> "amount", set |-> TRUE, n |-> c.params.Amount]
      [] c.op = "InvoiceItemClient.Create" ->
            [key |-> "amount", set |-> TRUE, n |-> c.params.Amount]
      [] c.op = "CouponClient.Create" ->
            [key |-> "amount_off", set |-> c.params.AmountOff # 0,
             n |-> c.params.AmountOff]
      [] c.op \in CustomerWriteOps ->
            [key |-> "account_balance", set |-> c.params.Balance # NilPtr,
             n |-> IF c.params.Balance # NilPtr THEN Deref(c.params.Balance)
                   ELSE 0]

AmountOps ==
    {"ChargeClient.Create", "ChargeClient.RefundAmount", "PlanClient.Create",
     "InvoiceItemClient.Create", "CouponClient.Create"} \cup CustomerWriteOps

\* C19 (amended): every monetary amount an operation puts into a request is
\* the caller's value in decimal, unchanged: it is non-negative exactly when
\* the caller's value is, and a negative value is sent as it is.
C19_AmountsSentUnchanged ==
    \A c \in Callers :
        (Sent(c) /\ call[c].op \in AmountOps) =>
            LET a == AmountArgument(call[c])
                v == req[c].values
            IN  /\ Has(v, a.key) <=> a.set
                /\ a.set =>
                    /\ v[a.key] = <<Itoa(a.n)>>
                    /\ (v[a.key][1] \in NegativeNumerals) <=> (a.n < 0)

C19_Witness ==
    \E c \in Callers :
        /\ Sent(c)
        /\ call[c].op = "InvoiceItemClient.Create"
        /\ call[c].params.Amount < 0
        /\ req[c].values["amount"][1] \in NegativeNumerals

\* C20: ChargeClient.Create sends capture=false if and only if Capture is
\* non-nil and points to false; with Capture nil or pointing to true no
\* capture field is sent.
C20_CaptureOnlyExplicitFalse ==
    \A c \in Callers :
        (Sent(c) /\ call[c].op = "ChargeClient.Create") =>
            LET capture == call[c].params.Capture
                v == req[c].values
            IN  /\ Has(v, "capture") <=>
                        (capture # NilPtr /\ Deref(capture) = FALSE)
                /\ Has(v, "capture") => v["capture"] = <<"false">>

C20_Witness ==
    \E c \in Callers :
        /\ Sent(c)
        /\ call[c].op = "ChargeClient.Create"
        /\ call[c].params.Capture = Ptr(FALSE)
        /\ req[c].values["capture"] = <<"false">>

(* --------------------------- claims: UnixTime ------------------------- *)

\* The bytes come from MarshalJSON(ut) and were unmarshalled into ut2.
RoundTripped == jsrc = "MarshalJSON" /\ uerr # NotCalled

\* C18: MarshalJSON writes Unix milliseconds and UnmarshalJSON reads Unix
\* seconds: unmarshalling the marshalled form of a time at t whole seconds
\* gives the time at 1000 * t seconds, which is the same time only for
\* t = 0.
C18_MillisecondsReadAsSeconds ==
    /\ RoundTripped =>
        /\ uerr = Nil
        /\ ut.sec >= 0 =>
                ut2 = [sec |-> 1000 * ut.sec + ut.nsec \div 1000000,
                       nsec |-> 0]
        /\ ut.nsec = 0 =>
            /\ ut2 = [sec |-> 1000 * ut.sec, nsec |-> 0]
            /\ (ut2 = ut) <=> (ut.sec = 0)
    /\ (jsrc = "raw" /\ js = <<"1", "2">> /\ uerr # NotCalled) =>
            uerr = Nil /\ ut2 = [sec |-> 12, nsec |-> 0]

C18_Witness ==
    /\ RoundTripped
    /\ ut = [sec |-> 2, nsec |-> 0]
    /\ ut2 = [sec |-> 2000, nsec |-> 0]

(* ---------------------- claims: request contents ---------------------- *)

CardDetailKeys ==
    {"card[number]", "card[exp_month]", "card[exp_year]", "card[name]",
     "card[cvc]", "card[address_line1]", "card[address_line2]",
     "card[address_zip]", "card[address_state]", "card[address_country]"}

\* The operations whose form values are appendCardParams of their card.
CardDetailOps ==
    {"CardClient.Update", "CustomerClient.UpdateCard"}

\* C25 (as claimed): appendCardParams emits each card field under
\* card[<field>] if and only if that same field of CardParams is
\* non-default: card[exp_month] iff ExpMonth # 0, card[exp_year] iff
\* ExpYear # 0, the string fields iff the string is non-empty.
C25_CardFieldIffSet ==
    \A c \in Callers :
        (Sent(c) /\ call[c].op \in CardDetailOps) =>
            LET k == Deref(call[c].card)
                v == req[c].values
            IN  /\ Has(v, "card[number]") <=> k.Number # ""
                /\ Has(v, "card[exp_month]") <=> k.ExpMonth # 0
                /\ Has(v, "card[exp_year]") <=> k.ExpYear # 0
                /\ Has(v, "card[name]") <=> k.Name # ""
                /\ Has(v, "card[cvc]") <=> k.CVC # ""
                /\ Has(v, "card[address_line1]") <=> k.Address1 # ""
                /\ Has(v, "card[address_line2]") <=> k.Address2 # ""
                /\ Has(v, "card[address_zip]") <=> k.AddressZip # ""
                /\ Has(v, "card[address_state]") <=> k.AddressState # ""
                /\ Has(v, "card[address_country]") <=> k.AddressCountry # ""

\* C26 (as claimed): InvoiceItemClient.Update with a non-zero Amount
\* carries that value in the amount field of the POST to /invoiceitems/{id},
\* and never sets the invoice field from the amount.
C26_UpdateSendsAmount ==
    \A c \in Callers :
        (Sent(c) /\ call[c].op = "InvoiceItemClient.Update") =>
            LET n == call[c].params.Amount
                v == req[c].values
            IN  /\ req[c].method = "POST"
                /\ req[c].path = "/invoiceitems/" \o QueryEscape(call[c].id)
                /\ n # 0 => (Has(v, "amount") /\ v["amount"] = <<Itoa(n)>>)
                /\ ~Has(v, "invoice")

\* C27 (as claimed): ChargeClient.Create sends exactly one payment source:
\* card[...] fields when Card is non-nil, otherwise card=<Token> when Token
\* is non-empty, otherwise customer=<Customer>; never a customer field
\* together with a card or card[...] field, and never a customer field with
\* an empty value.
C27_OnePaymentSource ==
    \A c \in Callers :
        (Sent(c) /\ call[c].op = "ChargeClient.Create") =>
            LET v == req[c].values
                cardSent == Has(v, "card") \/ DOMAIN v \cap CardDetailKeys # {}
            IN  /\ Has(v, "customer") \/ cardSent
                /\ ~(Has(v, "customer") /\ cardSent)
                /\ Has(v, "customer") => v["customer"] # <<"">>

PlanFixedKeys ==
    {"id", "amount", "interval", "interval_count", "currency",
     "trial_period_days"}

\* C28: PlanClient.Update sends only the name, the statement description
\* and metadata: whatever the other fields of PlanParams are set to, the
\* request never contains id, amount, interval, interval_count, currency or
\* trial_period_days.
C28_UpdateKeepsPlanDetails ==
    \A c \in Callers :
        (Sent(c) /\ call[c].op = "PlanClient.Update") =>
            /\ DOMAIN req[c].values \cap PlanFixedKeys = {}
            /\ DOMAIN req[c].values \subseteq
                    {"name", "statement_description", "metadata[k]"}

C28_Witness ==
    \E c \in Callers :
        /\ Sent(c)
        /\ call[c].op = "PlanClient.Update"
        /\ call[c].params.Amount # 0
        /\ call[c].params.IntervalCount > 1
        /\ call[c].params.TrialPeriodDays # 0
        /\ Has(req[c].values, "name")
        /\ ~Has(req[c].values, "amount")

\* C29: IsLuhnValid on the empty string checks no digit and returns
\* (true, nil).
C29_EmptyStringIsValid ==
    (LuhnCalled /\ card = <<>>) =>
        valid = TRUE /\ err = Nil /\ doubled = {}

C29_Witness ==
    LuhnCalled /\ card = <<>> /\ valid = TRUE /\ err = Nil

\* Both a card token and card details were supplied.
BothSources(token, cardPtr) == token # "" /\ cardPtr # NilPtr

TokenOnly(v) == Has(v, "card") /\ DOMAIN v \cap CardDetailKeys = {}

DetailsOnly(v) == ~Has(v, "card") /\ DOMAIN v \cap CardDetailKeys # {}

\* C30: no request carries both a card token (key card) and card details
\* (keys card[...]); given both, CustomerClient.Create/Update and
\* ChargeClient.Create send the details and drop the token, while
\* SubscriptionClient.Create/Update and CardClient.Create send the token
\* and drop the details.
C30_TokenOrDetails ==
    \A c \in Callers :
        Sent(c) =>
            LET v == req[c].values
                o == call[c].op
            IN  /\ ~(Has(v, "card") /\ DOMAIN v \cap CardDetailKeys # {})
                /\ (o \in CustomerWriteOps \cup {"ChargeClient.Create"}
                    /\ BothSources(call[c].params.Token, call[c].params.Card))
                        => DetailsOnly(v)
                /\ (o \in {"SubscriptionClient.Create",
                           "SubscriptionClient.Update"}
                    /\ BothSources(call[c].params.Token, call[c].params.Card))
                        => (TokenOnly(v) /\ v["card"] = <<call[c].params.Token>>)
                /\ (o = "CardClient.Create"
                    /\ BothSources(call[c].token, call[c].card))
                        => (TokenOnly(v) /\ v["card"] = <<call[c].token>>)

C30_Witness ==
    \E c \in Callers :
        /\ Sent(c)
        /\ call[c].op = "CustomerClient.Create"
        /\ BothSources(call[c].params.Token, call[c].params.Card)
        /\ DetailsOnly(req[c].values)

====
